---- MODULE Spec2Model ----
(***************************************************************************)
(* Model of src/src/App.tsx: the App component's state (item list,        *)
(* preview, generating flag, fabric canvas handle), its event handlers    *)
(* and the asynchronous generatePreview render, split at its awaits.      *)
(*                                                                         *)
(* Numbers that the code computes with "/" and "* 0.15" are modelled as   *)
(* exact rationals <<numerator, denominator>> in lowest terms with a      *)
(* positive denominator (the rounding of IEEE doubles is not modelled).   *)
(***************************************************************************)
EXTENDS Integers, Sequences, FiniteSets, TLC

\* ------------------------------------------------------------------ bounds
MaxImages == 3
MaxIds == 2
MaxRenders == 2
MaxBatch == 2
MaxEdits == 1

\* ------------------------------------------------------- exact arithmetic
Abs(n) == IF n < 0 THEN -n ELSE n

RECURSIVE GCD(_, _)
GCD(a, b) == IF b = 0 THEN a ELSE GCD(b, a % b)

Rat(n, d) == LET g == GCD(Abs(n), d) IN <<n \div g, d \div g>>

RInt(n) == <<n, 1>>

RAdd(a, b) == Rat(a[1] * b[2] + b[1] * a[2], a[2] * b[2])

RSub(a, b) == Rat(a[1] * b[2] - b[1] * a[2], a[2] * b[2])

RMul(a, b) == Rat(a[1] * b[1], a[2] * b[2])

RDiv(a, b) == Rat(a[1] * b[2], a[2] * b[1])

RLess(a, b) == a[1] * b[2] < b[1] * a[2]

RMax(a, b) == IF RLess(a, b) THEN b ELSE a

RMin(a, b) == IF RLess(b, a) THEN b ELSE a

\* JavaScript  x || d  on a number: 0 is falsy
OrDefault(x, d) == IF x = 0 THEN d ELSE x

\* JavaScript truthiness of a string: only "" is falsy
Truthy(s) == s # ""

\* ---------------------------------------------------------------- inputs
\* Decodable image files by pixel size; the 0x0 file is an image whose
\* decoder reports no intrinsic size (the case the code's "|| 1" and
\* "|| 600" fall-backs exist for).
Files ==
  { [type |-> "image/png", w |-> 1000, h |-> 600],
    [type |-> "image/png", w |-> 1000, h |-> 1000],
    [type |-> "image/png", w |-> 400,  h |-> 2000],
    [type |-> "image/png", w |-> 900,  h |-> 700],
    [type |-> "image/png", w |-> 0,    h |-> 0] }

\* the files the interactive specification uploads
UploadFiles ==
  { [type |-> "image/png", w |-> 900,  h |-> 700],
    [type |-> "text/plain", w |-> 0, h |-> 0] }

\* the sizes the images after the first take in the layout specification
BandFiles ==
  { [type |-> "image/png", w |-> 1000, h |-> 1000],
    [type |-> "image/png", w |-> 900,  h |-> 700],
    [type |-> "image/png", w |-> 0,    h |-> 0] }

ZhCaptions == {"", "zh"}
JpCaptions == {"", "jp"}

CaptionValues(lang) == IF lang = "zh" THEN ZhCaptions ELSE JpCaptions

\* ------------------------------------------------------ layout arithmetic
CANVAS_WIDTH == 800

\* lines 140-142
FirstImageHeight(firstImage) ==
  LET firstImageScale == RDiv(RInt(CANVAS_WIDTH), RInt(OrDefault(firstImage.width, 1)))
  IN RMul(RInt(OrDefault(firstImage.height, 600)), firstImageScale)

CaptionHeight_NoMax(firstImageHeight) ==
  RMax(RMul(firstImageHeight, Rat(15, 100)), RInt(80))

\* lines 145-148
CaptionHeight(firstImageHeight) ==
  RMin(RMax(RMul(firstImageHeight, Rat(15, 100)), RInt(80)), RInt(120))

TotalHeight_AllBands(firstImageHeight, captionHeight, n) ==
  RAdd(firstImageHeight, RMul(RInt(n), captionHeight))

\* lines 151-152
TotalHeight(firstImageHeight, captionHeight, n) ==
  RAdd(firstImageHeight, RMul(RInt(n - 1), captionHeight))

\* ---------------------------------------------------------- draw objects
\* lines 202-208: the clip rectangle of a caption band, in canvas coordinates
ClipRect_RelativeTop(currentY, captionHeight) ==
  [left |-> RInt(0), top |-> RInt(0), width |-> RInt(CANVAS_WIDTH),
   height |-> captionHeight, absolutePositioned |-> TRUE]

ClipRect(currentY, captionHeight) ==
  [left |-> RInt(0), top |-> currentY, width |-> RInt(CANVAS_WIDTH),
   height |-> captionHeight, absolutePositioned |-> TRUE]

\* lines 174-180: the first image, drawn whole; clipPath <<>> is "no clip"
FirstBandImage(img, currentY, firstImageHeight) ==
  [kind |-> "image", band |-> 0, src |-> img.src,
   left |-> RInt(0), top |-> currentY,
   scaleX |-> RDiv(RInt(CANVAS_WIDTH), RInt(OrDefault(img.width, 1))),
   scaleY |-> RDiv(firstImageHeight, RInt(OrDefault(img.height, 1))),
   clipPath |-> <<>>]

ClippedBandImage_FirstBandPlacement(img, i, currentY, captionHeight) ==
  LET imgScale == RDiv(RInt(CANVAS_WIDTH), RInt(OrDefault(img.width, 1)))
  IN [kind |-> "image", band |-> i, src |-> img.src,
      left |-> RInt(0), top |-> RInt(0),
      scaleX |-> imgScale, scaleY |-> imgScale,
      clipPath |-> <<ClipRect(currentY, captionHeight)>>]

\* lines 186-211: the clone of image i > 0, bottom-aligned to its band and clipped
ClippedBandImage(img, i, currentY, captionHeight) ==
  LET imgScale == RDiv(RInt(CANVAS_WIDTH), RInt(OrDefault(img.width, 1)))
      fullScaledHeight == RMul(RInt(OrDefault(img.height, 600)), imgScale)
      imgTop == RSub(RAdd(currentY, captionHeight), fullScaledHeight)
  IN [kind |-> "image", band |-> i, src |-> img.src,
      left |-> RInt(0), top |-> imgTop,
      scaleX |-> imgScale, scaleY |-> imgScale,
      clipPath |-> <<ClipRect(currentY, captionHeight)>>]

TextObject(kind, i, text, top, fontSize) ==
  [kind |-> kind, band |-> i, text |-> text,
   left |-> Rat(CANVAS_WIDTH, 2), top |-> top, fontSize |-> fontSize,
   originX |-> "center"]

ZhTop_SameOffset(caption, sectionTop, sectionHeight) ==
  RSub(RAdd(sectionTop, sectionHeight), RInt(55))

\* lines 224-225
ZhTop(caption, sectionTop, sectionHeight) ==
  RSub(RAdd(sectionTop, sectionHeight),
       RInt(IF Truthy(caption.jp) THEN 65 ELSE 55))

ZhObjects_FillFirst(i, caption, zhTop) ==
  << TextObject("zhText", i, caption.zh, zhTop, 36),
     TextObject("zhBackgroundText", i, caption.zh, zhTop, 36) >>

\* lines 228-269: the glow copy is added before the fill copy
ZhObjects(i, caption, zhTop) ==
  << TextObject("zhBackgroundText", i, caption.zh, zhTop, 36),
     TextObject("zhText", i, caption.zh, zhTop, 36) >>

CaptionObjects_AlwaysJp(i, caption, currentY, firstImageHeight, captionHeight) ==
  LET sectionHeight == IF i = 0 THEN firstImageHeight ELSE captionHeight
      sectionTop == RSub(currentY, sectionHeight)
  IN (IF Truthy(caption.zh)
        THEN ZhObjects(i, caption, ZhTop(caption, sectionTop, sectionHeight))
        ELSE <<>>)
     \o <<TextObject("jpText", i, caption.jp,
                     RSub(RAdd(sectionTop, sectionHeight), RInt(25)), 20)>>

\* lines 217-293; currentY is the offset after the band's height was added
CaptionObjects(i, caption, currentY, firstImageHeight, captionHeight) ==
  IF Truthy(caption.zh) \/ Truthy(caption.jp)
    THEN LET sectionTop == IF i = 0 THEN RSub(currentY, firstImageHeight)
                                    ELSE RSub(currentY, captionHeight)
             sectionHeight == IF i = 0 THEN firstImageHeight ELSE captionHeight
         IN (IF Truthy(caption.zh)
               THEN ZhObjects(i, caption, ZhTop(caption, sectionTop, sectionHeight))
               ELSE <<>>)
            \o
            (IF Truthy(caption.jp)
               THEN <<TextObject("jpText", i, caption.jp,
                                 RSub(RAdd(sectionTop, sectionHeight), RInt(25)), 20)>>
               ELSE <<>>)
    ELSE <<>>

BandHeight_OwnImage(i, img, firstImageHeight, captionHeight) ==
  IF i = 0 THEN firstImageHeight
  ELSE CaptionHeight(FirstImageHeight(img))

\* lines 183 and 213: what the loop adds to currentY for band i
BandHeight(i, img, firstImageHeight, captionHeight) ==
  IF i = 0 THEN firstImageHeight ELSE captionHeight

\* lines 172-293: everything one loop iteration adds to the fabric canvas;
\* currentY is the offset at the start of the iteration
BandObjects(i, img, imageData, currentY, firstImageHeight, captionHeight) ==
  << IF i = 0 THEN FirstBandImage(img, currentY, firstImageHeight)
              ELSE ClippedBandImage(img, i, currentY, captionHeight) >>
  \o CaptionObjects(i, imageData.caption,
                    RAdd(currentY, BandHeight(i, img, firstImageHeight, captionHeight)),
                    firstImageHeight, captionHeight)

\* ------------------------------------------------------------------ state
VARIABLES
  images,          \* useState images: sequence of [id, url, caption: [zh, jp]]
  previewUrl,      \* useState previewUrl: 0 is "", n > 0 the data URL read back by render n
  isGenerating,    \* useState isGenerating
  fabricCanvasRef, \* fabricCanvasRef.current: 0 is null, else an index of surfaces
  mounted,         \* the component is mounted (canvasRef.current is the canvas element)
  nextId,          \* ids handed out so far + 1 (Date.now() + Math.random() is fresh)
  urlFile,         \* object URLs created so far: urlFile[u] is the file behind URL u
  revoked,         \* URLs given to URL.revokeObjectURL
  surfaces,        \* every fabric.Canvas constructed, in order of construction
  gp,              \* the generatePreview invocation in flight: its position and locals
  nRenders,        \* generatePreview invocations that passed the empty-list guard
  nEdits,          \* caption edits made since the initial state
  genCall,         \* the promise returned by the latest generatePreview invocation
  errorLog         \* renders whose catch block ran (console.error)

vars == << images, previewUrl, isGenerating, fabricCanvasRef,
           mounted, nextId, urlFile, revoked, surfaces, gp, nRenders,
           nEdits, genCall, errorLog >>

Idle ==
  [pc |-> "idle", render |-> 0, images |-> <<>>, loadedImages |-> <<>>,
   firstImageHeight |-> RInt(0), CAPTION_HEIGHT |-> RInt(0),
   fabricCanvas |-> 0, i |-> 0, currentY |-> RInt(0)]

NoCall == [onEmpty |-> FALSE, state |-> "none", error |-> ""]

\* lines 33-41; originalId 0 is "undefined"
NewItem(id, url) ==
  [id |-> id, url |-> url, caption |-> [zh |-> "", jp |-> ""], originalId |-> 0]

\* lines 16-22
Init ==
  /\ images = <<>>
  /\ previewUrl = 0
  /\ isGenerating = FALSE
  /\ fabricCanvasRef = 0
  /\ mounted = TRUE
  /\ nextId = 1
  /\ urlFile = <<>>
  /\ revoked = {}
  /\ surfaces = <<>>
  /\ gp = Idle
  /\ nRenders = 0
  /\ nEdits = 0
  /\ genCall = NoCall
  /\ errorLog = {}

\* A freshly mounted component after the user has uploaded 1..MaxImages
\* image files and typed captions, before any render.
InitLayout ==
  \E n \in 1..MaxImages :
    \E fs \in { f \in [1..n -> Files] : \A k \in 2..n : f[k] \in BandFiles },
       zs \in [1..n -> ZhCaptions], js \in [1..n -> JpCaptions] :
      /\ images = [k \in 1..n |->
                     [id |-> k, url |-> k, caption |-> [zh |-> zs[k], jp |-> js[k]],
                      originalId |-> 0]]
      /\ urlFile = [k \in 1..n |-> fs[k]]
      /\ nextId = n + 1
      /\ previewUrl = 0
      /\ isGenerating = FALSE
      /\ fabricCanvasRef = 0
      /\ mounted = TRUE
      /\ revoked = {}
      /\ surfaces = <<>>
      /\ gp = Idle
      /\ nRenders = 0
      /\ nEdits = 0
      /\ genCall = NoCall
      /\ errorLog = {}

\* fabric.Canvas.dispose(): the canvas is destroyed; of a destroyed canvas
\* the model keeps that it existed and that it is gone
Disposed(fabricCanvas) ==
  [render |-> 0, width |-> RInt(0), height |-> RInt(0),
   backgroundColor |-> "", disposed |-> TRUE, rendered |-> FALSE,
   objects |-> <<>>, bands |-> <<>>]

Dispose(ss, c) ==
  IF c = 0 THEN ss ELSE [ss EXCEPT ![c] = Disposed(@)]

\* ------------------------------------------------------------ list edits
\* line 29: file.type.startsWith("image/")
IsImage(file) == file.type \in {"image/png", "image/jpeg"}

\* the selections of the file dialog: up to MaxBatch files, at most one of
\* them not an image
Batches ==
  { files \in UNION { [1..n -> UploadFiles] : n \in 1..MaxBatch } :
      Cardinality({ k \in DOMAIN files : ~IsImage(files[k]) }) <= 1 }

\* lines 24-46: every image file of the selection is appended with a fresh
\* id and a fresh object URL; other files are skipped
HandleImageUpload(files) ==
  LET imgs == SelectSeq(files, IsImage)
  IN /\ mounted
     /\ nextId + Len(imgs) - 1 <= MaxIds
     /\ images' = images \o [k \in 1..Len(imgs) |->
                               NewItem(nextId + k - 1, Len(urlFile) + k)]
     /\ urlFile' = urlFile \o imgs
     /\ nextId' = nextId + Len(imgs)
     /\ UNCHANGED << previewUrl, isGenerating, fabricCanvasRef, mounted,
                     revoked, surfaces, gp, nRenders, genCall, errorLog,
                     nEdits >>

\* lines 49-66.  The copy modal (lines 19, 96-102, 493-534)
\* only decides which buttons are shown: it can be opened whenever the list
\* is non-empty and lists the current images, so a copy is possible exactly then.
CopyImage(k) ==
  LET originalImage == images[k]
      copiedImage ==
        [id |-> nextId, url |-> originalImage.url,
         caption |-> [zh |-> originalImage.caption.zh, jp |-> originalImage.caption.jp],
         originalId |-> OrDefault(originalImage.originalId, originalImage.id)]
  IN /\ mounted
     /\ nextId <= MaxIds
     /\ images' = Append(images, copiedImage)
     /\ nextId' = nextId + 1
     /\ previewUrl' = 0
     /\ UNCHANGED << isGenerating, fabricCanvasRef, mounted, urlFile,
                     revoked, surfaces, gp, nRenders, genCall, errorLog,
                     nEdits >>

UpdateCaption_InPlace(id, lang, value) ==
  /\ mounted
  /\ \E k \in 1..Len(images) : images[k].id = id /\ images[k].caption[lang] # value
  /\ nEdits < MaxEdits
  /\ nEdits' = nEdits + 1
  /\ images' = [k \in 1..Len(images) |->
                  IF images[k].id = id
                    THEN [images[k] EXCEPT !.caption[lang] = value]
                    ELSE images[k]]
  /\ gp' = [gp EXCEPT !.images =
                        [k \in 1..Len(gp.images) |->
                           IF gp.images[k].id = id
                             THEN [gp.images[k] EXCEPT !.caption[lang] = value]
                             ELSE gp.images[k]]]
  /\ UNCHANGED << previewUrl, isGenerating, fabricCanvasRef, mounted, nextId,
                  urlFile, revoked, surfaces, nRenders, genCall, errorLog >>

\* lines 68-76, from the inputs' onChange (lines 406-429), which fires
\* when the typed value differs from the one shown
UpdateCaption(id, lang, value) ==
  /\ mounted
  /\ \E k \in 1..Len(images) : images[k].id = id /\ images[k].caption[lang] # value
  /\ nEdits < MaxEdits
  /\ nEdits' = nEdits + 1
  /\ images' = [k \in 1..Len(images) |->
                  IF images[k].id = id
                    THEN [images[k] EXCEPT !.caption[lang] = value]
                    ELSE images[k]]
  /\ UNCHANGED << previewUrl, isGenerating, fabricCanvasRef, mounted, nextId,
                  urlFile, revoked, surfaces, gp, nRenders, genCall,
                  errorLog >>

RemoveImage_AlwaysRevokes(id) ==
  LET imageToRemove == CHOOSE img \in {images[k] : k \in 1..Len(images)} : img.id = id
  IN /\ mounted
     /\ \E k \in 1..Len(images) : images[k].id = id
     /\ revoked' = revoked \cup {imageToRemove.url}
     /\ images' = SelectSeq(images, LAMBDA img : img.id # id)
     /\ previewUrl' = 0
     /\ UNCHANGED << isGenerating, fabricCanvasRef, mounted, nextId, urlFile,
                     surfaces, gp, nRenders, genCall, errorLog, nEdits >>

\* lines 78-89
RemoveImage(id) ==
  LET imageToRemove == CHOOSE img \in {images[k] : k \in 1..Len(images)} : img.id = id
      sameUrlCount == Cardinality({k \in 1..Len(images) : images[k].url = imageToRemove.url})
  IN /\ mounted
     /\ \E k \in 1..Len(images) : images[k].id = id
     /\ revoked' = IF sameUrlCount = 1 THEN revoked \cup {imageToRemove.url}
                                       ELSE revoked
     /\ images' = SelectSeq(images, LAMBDA img : img.id # id)
     /\ previewUrl' = 0
     /\ UNCHANGED << isGenerating, fabricCanvasRef, mounted, nextId, urlFile,
                     surfaces, gp, nRenders, genCall, errorLog, nEdits >>

\* lines 324-330: the unmount cleanup.  The state of lines 16-18 goes with
\* the component (the variables take their initial values); the ref object,
\* the closures of a render in flight and the object URLs stay.
Unmount ==
  /\ mounted
  /\ mounted' = FALSE
  /\ surfaces' = Dispose(surfaces, fabricCanvasRef)
  /\ images' = <<>>
  /\ previewUrl' = 0
  /\ isGenerating' = FALSE
  /\ UNCHANGED << fabricCanvasRef, nextId, urlFile, revoked, gp, nRenders,
                  genCall, errorLog, nEdits >>

\* ----------------------------------------------------------- the render
Fulfilled(onEmpty) == [onEmpty |-> onEmpty, state |-> "fulfilled", error |-> ""]

Pending == [onEmpty |-> FALSE, state |-> "pending", error |-> ""]

GeneratePreviewEmpty_FlagFirst ==
  /\ mounted
  /\ Len(images) = 0
  /\ ~isGenerating
  /\ isGenerating' = TRUE
  /\ genCall' = Fulfilled(TRUE)
  /\ UNCHANGED << images, previewUrl, fabricCanvasRef, mounted, nextId,
                  urlFile, revoked, surfaces, gp, nRenders, nEdits,
                  errorLog >>

\* lines 120-121: the handler invoked on an empty list returns at its guard
\* (the button of lines 468-476 is not rendered then, and is disabled while
\* isGenerating; the guard is the handler's own)
GeneratePreviewEmpty ==
  /\ mounted
  /\ Len(images) = 0
  /\ ~isGenerating
  /\ genCall' = Fulfilled(TRUE)
  /\ UNCHANGED << images, previewUrl, isGenerating, fabricCanvasRef, mounted,
                  nextId, urlFile, revoked, surfaces, gp, nRenders, errorLog,
                  nEdits >>

GeneratePreview_NoFlag ==
  /\ mounted
  /\ Len(images) > 0
  /\ nRenders < MaxRenders
  /\ surfaces' = Dispose(surfaces, fabricCanvasRef)
  /\ nRenders' = nRenders + 1
  /\ gp' = [Idle EXCEPT !.pc = "loading", !.render = nRenders + 1, !.images = images]
  /\ genCall' = Pending
  /\ UNCHANGED << images, previewUrl, isGenerating, fabricCanvasRef, mounted,
                  nextId, urlFile, revoked, errorLog, nEdits >>

\* lines 120-134, up to the await of Promise.all; the button of lines
\* 468-476 is rendered when the list is non-empty and disabled while
\* isGenerating.  The closure's images are the list at the click.  While
\* the component is mounted canvasRef.current is the canvas element of
\* line 490, so the return of line 125 is not taken.
GeneratePreview ==
  /\ mounted
  /\ Len(images) > 0
  /\ ~isGenerating
  /\ nRenders < MaxRenders
  /\ isGenerating' = TRUE
  /\ surfaces' = Dispose(surfaces, fabricCanvasRef)
  /\ nRenders' = nRenders + 1
  /\ gp' = [Idle EXCEPT !.pc = "loading", !.render = nRenders + 1, !.images = images]
  /\ genCall' = Pending
  /\ UNCHANGED << images, previewUrl, fabricCanvasRef, mounted, nextId,
                  urlFile, revoked, errorLog, nEdits >>

CatchBlock_PublishesPreview(cause, item) ==
  /\ errorLog' = errorLog \cup {gp.render}
  /\ isGenerating' = FALSE
  /\ previewUrl' = gp.render
  /\ gp' = Idle
  /\ genCall' = Fulfilled(FALSE)
  /\ UNCHANGED << images, fabricCanvasRef, mounted, nextId, urlFile, revoked,
                  surfaces, nRenders, nEdits >>

\* lines 307-310
CatchBlock(cause, item) ==
  /\ errorLog' = errorLog \cup {gp.render}
  /\ isGenerating' = FALSE
  /\ gp' = Idle
  /\ genCall' = Fulfilled(FALSE)
  /\ UNCHANGED << images, previewUrl, fabricCanvasRef, mounted, nextId,
                  urlFile, revoked, surfaces, nRenders, nEdits >>

\* lines 104-118 and 132-134: the load of item k (0-based) rejects, so
\* Promise.all rejects and the catch block runs
LoadsReject(k) ==
  /\ gp.pc = "loading"
  /\ k \in 0..(Len(gp.images) - 1)
  /\ CatchBlock("load", k)

\* line 186: the clone of image i rejects
CloneReject ==
  /\ gp.pc = "cloning"
  /\ CatchBlock("clone", gp.i)

\* lines 104-118: a decoded image has the pixel size of the file behind its URL
LoadedImage(item) ==
  [width |-> urlFile[item.url].w, height |-> urlFile[item.url].h, src |-> item.url]

\* lines 132-186 (or 132-306 for a single item): Promise.all resolves, the
\* canvas is sized and constructed, band 0 is drawn, and the loop runs up
\* to the first await of a clone, or to renderAll and setTimeout
LoadsResolve ==
  LET n == Len(gp.images)
      loadedImages == [k \in 1..n |-> LoadedImage(gp.images[k])]
      firstImageHeight == FirstImageHeight(loadedImages[1])
      captionHeight == CaptionHeight(firstImageHeight)
      totalHeight == TotalHeight(firstImageHeight, captionHeight, n)
      bandHeight == BandHeight(0, loadedImages[1], firstImageHeight, captionHeight)
      last == (n = 1)
      fabricCanvas ==
        [render |-> gp.render, width |-> RInt(CANVAS_WIDTH), height |-> totalHeight,
         backgroundColor |-> "white", disposed |-> FALSE, rendered |-> last,
         objects |-> BandObjects(0, loadedImages[1], gp.images[1], RInt(0),
                                 firstImageHeight, captionHeight),
         bands |-> << [topY |-> RInt(0), heightPx |-> bandHeight] >>]
  IN /\ gp.pc = "loading"
     /\ surfaces' = Append(surfaces, fabricCanvas)
     /\ fabricCanvasRef' = Len(surfaces) + 1
     /\ gp' = [gp EXCEPT !.pc = IF last THEN "timeout" ELSE "cloning",
                         !.loadedImages = loadedImages,
                         !.firstImageHeight = firstImageHeight,
                         !.CAPTION_HEIGHT = captionHeight,
                         !.fabricCanvas = Len(surfaces) + 1,
                         !.i = 1,
                         !.currentY = RAdd(RInt(0), bandHeight)]
     /\ genCall' = IF last THEN Fulfilled(FALSE) ELSE genCall
     /\ UNCHANGED << images, previewUrl, isGenerating, mounted, nextId,
                     urlFile, revoked, nRenders, errorLog, nEdits >>

\* lines 186-214 for band gp.i, then the loop up to the next await of a
\* clone, or lines 296-306: renderAll and setTimeout
CloneResolve ==
  LET i == gp.i
      img == gp.loadedImages[i + 1]
      bandHeight == BandHeight(i, img, gp.firstImageHeight, gp.CAPTION_HEIGHT)
      last == (i + 1 = Len(gp.loadedImages))
  IN /\ gp.pc = "cloning"
     /\ surfaces' = [surfaces EXCEPT
          ![gp.fabricCanvas].objects =
             @ \o BandObjects(i, img, gp.images[i + 1], gp.currentY,
                              gp.firstImageHeight, gp.CAPTION_HEIGHT),
          ![gp.fabricCanvas].bands =
             Append(@, [topY |-> gp.currentY, heightPx |-> bandHeight]),
          ![gp.fabricCanvas].rendered = last]
     /\ gp' = [gp EXCEPT !.pc = IF last THEN "timeout" ELSE "cloning",
                         !.i = i + 1,
                         !.currentY = RAdd(gp.currentY, bandHeight)]
     /\ genCall' = IF last THEN Fulfilled(FALSE) ELSE genCall
     /\ UNCHANGED << images, previewUrl, isGenerating, fabricCanvasRef,
                     mounted, nextId, urlFile, revoked, nRenders, errorLog,
                     nEdits >>

\* lines 298-306: the timer callback reads the canvas back; the setters of
\* an unmounted component do nothing
TimeoutFired ==
  /\ gp.pc = "timeout"
  /\ previewUrl' = (IF mounted THEN gp.render ELSE previewUrl)
  /\ isGenerating' = FALSE
  /\ gp' = Idle
  /\ UNCHANGED << images, fabricCanvasRef, mounted, nextId, urlFile, revoked,
                  surfaces, nRenders, genCall, errorLog, nEdits >>

\* lines 298-306: toDataURL throws inside the timer callback, which no
\* try block encloses (the try of line 127 was left when setTimeout
\* returned): lines 304-305 are skipped and nothing catches the error
TimeoutThrows ==
  /\ gp.pc = "timeout"
  /\ gp' = Idle
  /\ UNCHANGED << images, previewUrl, isGenerating, fabricCanvasRef, mounted,
                  nextId, urlFile, revoked, surfaces, nRenders, genCall,
                  errorLog, nEdits >>

\* ------------------------------------------------------- specifications
NextRender ==
  \/ GeneratePreview
  \/ \E k \in 0..(MaxImages - 1) : LoadsReject(k)
  \/ LoadsResolve
  \/ CloneResolve
  \/ CloneReject
  \/ TimeoutFired
  \/ TimeoutThrows

Next ==
  \/ \E files \in Batches : HandleImageUpload(files)
  \/ \E k \in 1..Len(images) : CopyImage(k)
  \/ \E id \in 1..MaxIds, lang \in {"zh", "jp"} :
       \E value \in CaptionValues(lang) : UpdateCaption(id, lang, value)
  \/ \E id \in 1..MaxIds : RemoveImage(id)
  \/ Unmount
  \/ GeneratePreviewEmpty
  \/ NextRender

Spec == Init /\ [][Next]_vars

\* one render of each initial list
GeneratePreviewOnce == nRenders = 0 /\ GeneratePreview

NextLayout ==
  \/ GeneratePreviewOnce
  \/ \E k \in 0..(MaxImages - 1) : LoadsReject(k)
  \/ LoadsResolve
  \/ CloneResolve
  \/ CloneReject
  \/ TimeoutFired
  \/ TimeoutThrows

SpecLayout == InitLayout /\ [][NextLayout]_vars

\* ------------------------------------------------- what the claims refer to
\* the closed forms of the specification, for a first image of W x H pixels
ExpectedFullHeight(W, H) == Rat(H * 800, W)

ExpectedCaptionBand(W, H) ==
  LET x == Rat(H * 800 * 15, W * 100)
  IN IF RLess(x, RInt(80)) THEN RInt(80)
     ELSE IF RLess(RInt(120), x) THEN RInt(120)
     ELSE x

RECURSIVE SumHeights(_)
SumHeights(bs) ==
  IF bs = <<>> THEN RInt(0)
  ELSE RAdd(bs[1].heightPx, SumHeights(Tail(bs)))

FirstFile == urlFile[images[1].url]

FirstIsPositive == FirstFile.w > 0 /\ FirstFile.h > 0

Live == { c \in 1..Len(surfaces) : ~surfaces[c].disposed }

CountKind(objs, kind, i) ==
  Cardinality({ p \in 1..Len(objs) : objs[p].kind = kind /\ objs[p].band = i })

Rank(kind) ==
  CASE kind = "image" -> 1
    [] kind = "zhBackgroundText" -> 2
    [] kind = "zhText" -> 3
    [] kind = "jpText" -> 4

\* C1: for a first image of positive size (W0,H0) the canvas is 800 wide and
\* fullHeight0 + (N-1)*captionBandHeight high, with fullHeight0 = H0*800/W0
\* and captionBandHeight = clamp(fullHeight0*0.15, 80, 120); for N = 1 the
\* height is fullHeight0.  The width is 800 whatever the first image.
C1_CanvasSize ==
  \A c \in Live :
    /\ surfaces[c].width = RInt(800)
    /\ FirstIsPositive =>
         /\ surfaces[c].height =
              RAdd(ExpectedFullHeight(FirstFile.w, FirstFile.h),
                   RMul(RInt(Len(images) - 1),
                        ExpectedCaptionBand(FirstFile.w, FirstFile.h)))
         /\ Len(images) = 1 =>
              surfaces[c].height = ExpectedFullHeight(FirstFile.w, FirstFile.h)

C1_Witness ==
  /\ Len(surfaces) = 1
  /\ Len(images) = 3
  /\ FirstFile.w = 900 /\ FirstFile.h = 700
  /\ surfaces[1].height = Rat(7280, 9)

\* C2: every band i > 0 has the same height, which lies in [80, 120] and is
\* the clamp computed from the first image alone, whatever the other images,
\* the captions and the number of items; a 400x2000 first image gives 120.
C2_SharedBandHeight ==
  \A c \in Live :
    \A b \in 2..Len(surfaces[c].bands) :
      LET h == surfaces[c].bands[b].heightPx
      IN /\ ~RLess(h, RInt(80)) /\ ~RLess(RInt(120), h)
         /\ h = surfaces[c].bands[2].heightPx
         /\ FirstIsPositive => h = ExpectedCaptionBand(FirstFile.w, FirstFile.h)
         /\ (FirstFile.w = 400 /\ FirstFile.h = 2000) => h = RInt(120)

C2_Witness ==
  /\ Len(surfaces) = 1
  /\ FirstFile.w = 400 /\ FirstFile.h = 2000
  /\ Len(surfaces[1].bands) = 3
  /\ urlFile[images[2].url] # urlFile[images[3].url]
  /\ surfaces[1].bands[3].heightPx = RInt(120)

\* C3: bands tile the canvas: band 0 starts at 0, each band starts where the
\* previous one ends, at every point of the loop currentY is the sum of the
\* heights of the bands placed, and after the last band it is the canvas height.
C3_BandsTile ==
  \A c \in Live :
    LET bs == surfaces[c].bands
    IN /\ bs[1].topY = RInt(0)
       /\ \A b \in 1..(Len(bs) - 1) :
            bs[b + 1].topY = RAdd(bs[b].topY, bs[b].heightPx)
       /\ (gp.pc \in {"cloning", "timeout"} /\ gp.fabricCanvas = c) =>
            /\ gp.currentY = SumHeights(bs)
            /\ Len(bs) = gp.i
       /\ (gp.pc = "timeout" /\ gp.fabricCanvas = c) =>
            /\ gp.currentY = surfaces[c].height
            /\ Len(bs) = Len(images)

C3_Witness ==
  /\ gp.pc = "timeout"
  /\ Len(surfaces[gp.fabricCanvas].bands) = 3
  /\ gp.currentY = Rat(7280, 9)

\* C4: the image of every band i > 0 is clipped to exactly
\* {left 0, top band[i].topY, width 800, height captionBandHeight} in
\* absolute canvas coordinates whatever its own size; band 0 has no clip.
C4_ClipRect ==
  \A c \in Live :
    \A p \in 1..Len(surfaces[c].objects) :
      LET o == surfaces[c].objects[p]
      IN o.kind = "image" =>
           IF o.band = 0
             THEN o.clipPath = <<>>
             ELSE /\ o.clipPath =
                       << [left |-> RInt(0),
                           top |-> surfaces[c].bands[o.band + 1].topY,
                           width |-> RInt(800),
                           height |-> surfaces[c].bands[2].heightPx,
                           absolutePositioned |-> TRUE] >>
                  /\ FirstIsPositive =>
                       /\ o.clipPath[1].top =
                            RAdd(ExpectedFullHeight(FirstFile.w, FirstFile.h),
                                 RMul(RInt(o.band - 1),
                                      ExpectedCaptionBand(FirstFile.w, FirstFile.h)))
                       /\ o.clipPath[1].height =
                            ExpectedCaptionBand(FirstFile.w, FirstFile.h)

C4_Witness ==
  /\ Len(surfaces) = 1
  /\ Len(images) = 3
  /\ FirstFile.w = 1000 /\ FirstFile.h = 600
  /\ urlFile[images[3].url].w = 900
  /\ \E p \in 1..Len(surfaces[1].objects) :
       /\ surfaces[1].objects[p].kind = "image"
       /\ surfaces[1].objects[p].band = 2
       /\ surfaces[1].objects[p].clipPath[1].top = RInt(560)
       /\ surfaces[1].objects[p].clipPath[1].height = RInt(80)

\* C5: a band whose captions are both empty gets no text object; a band
\* with only a primary caption gets exactly the glow and the fill text and
\* no secondary text; the secondary text is drawn exactly once iff the
\* secondary caption is non-empty.
C5_CaptionPresence ==
  \A c \in Live :
    \A b \in 1..Len(surfaces[c].bands) :
      LET caption == images[b].caption
          objs == surfaces[c].objects
          glow == CountKind(objs, "zhBackgroundText", b - 1)
          fill == CountKind(objs, "zhText", b - 1)
          secondary == CountKind(objs, "jpText", b - 1)
      IN /\ (caption.zh = "" /\ caption.jp = "") => glow + fill + secondary = 0
         /\ (caption.zh # "" /\ caption.jp = "") =>
              glow = 1 /\ fill = 1 /\ secondary = 0
         /\ (caption.jp # "") <=> (secondary = 1)
         /\ secondary <= 1

C5_Witness ==
  /\ Len(surfaces) = 1
  /\ Len(surfaces[1].bands) = 3
  /\ images[1].caption = [zh |-> "", jp |-> ""]
  /\ images[2].caption = [zh |-> "zh", jp |-> ""]
  /\ images[3].caption = [zh |-> "", jp |-> "jp"]
  /\ Len(surfaces[1].objects) = 6

\* C6: objects are added band after band in item order, and within a band
\* the image, then the glow copy, then the fill copy of the primary
\* caption, then the secondary caption.
C6_DrawOrder ==
  \A c \in Live :
    LET objs == surfaces[c].objects
    IN /\ \A p \in 1..(Len(objs) - 1) :
            \/ objs[p].band < objs[p + 1].band
            \/ /\ objs[p].band = objs[p + 1].band
               /\ Rank(objs[p].kind) < Rank(objs[p + 1].kind)
       /\ \A b \in 1..Len(surfaces[c].bands) :
            CountKind(objs, "image", b - 1) = 1
       /\ objs # <<>> => objs[1].kind = "image" /\ objs[1].band = 0

C6_Witness ==
  /\ gp.pc = "timeout"
  /\ Len(images) = 2
  /\ images[1].caption = [zh |-> "zh", jp |-> "jp"]
  /\ images[2].caption = [zh |-> "zh", jp |-> "jp"]
  /\ Len(surfaces[gp.fabricCanvas].objects) = 8

\* C7: in every band, with bandBottom = topY + heightPx, the primary caption
\* is at bandBottom - 65 when the band has a secondary caption and at
\* bandBottom - 55 otherwise, the secondary caption at bandBottom - 25, all
\* centred at x = 400; two images, the first 1000x1000, a primary caption
\* only on the second: canvas 800x920, primary caption at 865.
C7_CaptionPlacement ==
  \A c \in Live :
    /\ \A p \in 1..Len(surfaces[c].objects) :
         LET o == surfaces[c].objects[p]
             band == surfaces[c].bands[o.band + 1]
             bandBottom == RAdd(band.topY, band.heightPx)
             caption == images[o.band + 1].caption
         IN o.kind # "image" =>
              /\ o.left = RInt(400)
              /\ o.kind \in {"zhBackgroundText", "zhText"} =>
                   o.top = RSub(bandBottom, RInt(IF caption.jp # "" THEN 65 ELSE 55))
              /\ o.kind = "jpText" => o.top = RSub(bandBottom, RInt(25))
    /\ ( /\ Len(images) = 2
         /\ FirstFile.w = 1000 /\ FirstFile.h = 1000
         /\ images[2].caption = [zh |-> "zh", jp |-> ""]
         /\ Len(surfaces[c].bands) = 2 ) =>
           /\ surfaces[c].width = RInt(800) /\ surfaces[c].height = RInt(920)
           /\ \A p \in 1..Len(surfaces[c].objects) :
                (surfaces[c].objects[p].kind = "zhText"
                   /\ surfaces[c].objects[p].band = 1) =>
                  surfaces[c].objects[p].top = RInt(865)

C7_Witness ==
  /\ gp.pc = "timeout"
  /\ Len(images) = 2
  /\ FirstFile.w = 1000 /\ FirstFile.h = 1000
  /\ images[1].caption = [zh |-> "zh", jp |-> "jp"]
  /\ images[2].caption = [zh |-> "zh", jp |-> ""]
  /\ \E p \in 1..Len(surfaces[gp.fabricCanvas].objects) :
       /\ surfaces[gp.fabricCanvas].objects[p].kind = "zhText"
       /\ surfaces[gp.fabricCanvas].objects[p].band = 1
       /\ surfaces[gp.fabricCanvas].objects[p].top = RInt(865)
  /\ \E p \in 1..Len(surfaces[gp.fabricCanvas].objects) :
       /\ surfaces[gp.fabricCanvas].objects[p].kind = "zhText"
       /\ surfaces[gp.fabricCanvas].objects[p].band = 0
       /\ surfaces[gp.fabricCanvas].objects[p].top = RInt(735)

\* a step in which generatePreview was invoked on an empty list
EmptyListRequest == genCall'.onEmpty /\ genCall' # genCall

C9_NoPartialOutput ==
  [][ /\ previewUrl' \notin errorLog'
      /\ \A c \in 1..Len(surfaces) :
           surfaces[c].render \in errorLog =>
             surfaces'[c].objects \in {surfaces[c].objects, <<>>} ]_vars

C9_Witness ==
  /\ errorLog = {1, 2}
  /\ previewUrl = 0
  /\ Len(surfaces) = 1
  /\ surfaces[1].objects # <<>>
  /\ gp.pc = "idle"

\* C10: once a render that failed after constructing its surface has
\* completed, no undisposed surface created by it remains.
C10_FailedSurfaceReleased ==
  \A c \in 1..Len(surfaces) :
    surfaces[c].render \in errorLog => surfaces[c].disposed

\* C11: every render that set the generating flag signals completion: once
\* no step of generatePreview remains to run (its promise settled and its
\* timer callback over), isGenerating is false again.
C11_CompletionSignalled ==
  gp.pc = "idle" => ~isGenerating

\* C12: at most one render is in flight: a generatePreview invocation
\* passes its guard only when no earlier invocation is between its start
\* and its read-back or catch block, and nothing replaces the invocation in
\* flight.
C12_SingleRenderInFlight ==
  [][ /\ nRenders' # nRenders => gp.pc = "idle" /\ ~isGenerating
      /\ gp.pc # "idle" =>
           /\ mounted => isGenerating
           /\ gp'.render \in {gp.render, 0} ]_vars

C12_Witness ==
  /\ mounted
  /\ isGenerating
  /\ gp.pc = "cloning"
  /\ nRenders = 1
  /\ Len(images) > 0
  /\ images # gp.images

\* C13: from the construction of the fabric canvas to the toDataURL of the
\* timer callback the render's surface is the one fabricCanvasRef holds and
\* nothing has disposed it, and at the read-back every band is drawn on it.
C13_SurfaceOwnedUntilReadBack ==
  gp.pc \in {"cloning", "timeout"} =>
    /\ fabricCanvasRef = gp.fabricCanvas
    /\ ~surfaces[gp.fabricCanvas].disposed
    /\ gp.pc = "timeout" =>
         /\ surfaces[gp.fabricCanvas].rendered
         /\ Len(surfaces[gp.fabricCanvas].bands) = Len(gp.images)

\* C14: at every moment at most one fabric canvas is undisposed, and every
\* canvas constructed is disposed by a later render or by the unmount
\* cleanup: once the component is unmounted and no step of a render
\* remains, none is left undisposed.
C14_SurfacesReleased ==
  /\ Cardinality(Live) <= 1
  /\ (~mounted /\ gp.pc = "idle") => Live = {}

\* the surface of the render in flight, while it exists and is not disposed
InFlightObjects ==
  IF gp.pc \in {"cloning", "timeout"} /\ ~surfaces[gp.fabricCanvas].disposed
    THEN surfaces[gp.fabricCanvas].objects
    ELSE <<>>

\* what the render in flight has loaded and drawn is taken, index by index,
\* from its own item sequence
PairedWithSnapshot ==
  LET objs == InFlightObjects
  IN /\ Len(gp.loadedImages) \in {0, Len(gp.images)}
     /\ \A k \in 1..Len(gp.loadedImages) :
          gp.loadedImages[k].src = gp.images[k].url
     /\ \A p \in 1..Len(objs) :
          LET o == objs[p]
              item == gp.images[o.band + 1]
          IN /\ o.band < Len(gp.images)
             /\ o.kind = "image" => o.src = item.url
             /\ o.kind \in {"zhText", "zhBackgroundText"} => o.text = item.caption.zh
             /\ o.kind = "jpText" => o.text = item.caption.jp

\* C15: the item sequence of a render is the list at the click and stays
\* what it was for the whole pass, whatever upload, copy, remove or caption
\* edit happens meanwhile; the i-th loaded image and the i-th band's texts
\* come from the i-th item of that sequence.
C15_SnapshotImmutable ==
  /\ [](gp.pc # "idle" => PairedWithSnapshot)
  /\ [][ /\ (gp.pc = "idle" /\ gp'.pc # "idle") => gp'.images = images
         /\ (gp.pc # "idle" /\ gp'.pc # "idle") => gp'.images = gp.images ]_vars

C15_Witness ==
  /\ gp.pc = "timeout"
  /\ Len(gp.images) = 2
  /\ Len(images) = 2
  /\ \E k \in 1..2 : /\ images[k].id = gp.images[k].id
                     /\ images[k].caption # gp.images[k].caption
  /\ Len(InFlightObjects) >= 2

\* every image drawn by the render in flight has the scale, top and clip
\* rectangle of its own band (files of positive size)
OwnBandParameters ==
  LET objs == InFlightObjects
  IN \A p \in 1..Len(objs) :
       LET o == objs[p]
           f0 == urlFile[gp.images[1].url]
           f == urlFile[gp.images[o.band + 1].url]
           cap == ExpectedCaptionBand(f0.w, f0.h)
           bandTop == RAdd(ExpectedFullHeight(f0.w, f0.h),
                           RMul(RInt(o.band - 1), cap))
       IN (o.kind = "image" /\ f0.w > 0 /\ f0.h > 0 /\ f.w > 0 /\ f.h > 0) =>
            /\ o.scaleX = Rat(800, f.w)
            /\ o.scaleY = Rat(800, f.w)
            /\ o.left = RInt(0)
            /\ o.band = 0 => o.top = RInt(0) /\ o.clipPath = <<>>
            /\ o.band > 0 =>
                 /\ o.top = RSub(RAdd(bandTop, cap), ExpectedFullHeight(f.w, f.h))
                 /\ o.clipPath = << [left |-> RInt(0), top |-> bandTop,
                                     width |-> RInt(800), height |-> cap,
                                     absolutePositioned |-> TRUE] >>

\* C16: when items share an image, every band of the render in flight is
\* drawn with the scale, top and clip rectangle of its own index (for files
\* of positive size: scale 800/W, band i > 0 bottom-aligned to the band that
\* starts at fullHeight0 + (i-1)*captionBandHeight, band 0 at the top and
\* unclipped), and no step of the render changes the item list, the object
\* URLs or their files.
C16_BandsIndependent ==
  /\ []OwnBandParameters
  /\ [][gp' # gp => UNCHANGED << images, urlFile, revoked >>]_vars

C16_Witness ==
  /\ gp.pc = "timeout"
  /\ Len(gp.images) = 2
  /\ gp.images[1].url = gp.images[2].url
  /\ gp.images[2].originalId = gp.images[1].id
  /\ CountKind(InFlightObjects, "image", 0) = 1
  /\ CountKind(InFlightObjects, "image", 1) = 1

\* C17: an object URL is revoked exactly when the last item using it is
\* removed: after any uploads, copies and removals no item of the list
\* references a revoked URL, and every URL created that no item references
\* has been revoked.
C17_RevokedIffUnreferenced ==
  mounted =>
    \A u \in 1..Len(urlFile) :
      u \in revoked <=> ~ \E k \in 1..Len(images) : images[k].url = u

C17_Witness ==
  /\ mounted
  /\ images = <<>>
  /\ Len(urlFile) = 1
  /\ nextId = 3
  /\ revoked = {1}

\* the list the render in flight was started on has since lost an item
\* (removeImage) or gained a copy (copyImage)
RemovedOrCopiedSinceStart ==
  \/ \E k \in 1..Len(gp.images) :
       \A j \in 1..Len(images) : images[j].id # gp.images[k].id
  \/ \E j \in 1..Len(images) :
       /\ images[j].originalId # 0
       /\ \A k \in 1..Len(gp.images) : gp.images[k].id # images[j].id

\* C18: a render that was in flight when removeImage or copyImage changed
\* the list and cleared the preview never publishes its result: the preview
\* is set only by a render started after the change.
C18_NoStalePreview ==
  [][ (previewUrl' # previewUrl /\ previewUrl' # 0) =>
        ~(gp.pc # "idle" /\ RemovedOrCopiedSinceStart) ]_vars

\* C19: while the loads of a render are pending, no URL of an item of its
\* sequence is revoked.
C19_NoRevokeWhileLoading ==
  gp.pc = "loading" =>
    \A k \in 1..Len(gp.images) : gp.images[k].url \notin revoked

====
